---- MODULE Spec2Model ----
(***************************************************************************)
(* Model of bert-squeeze's pruning callbacks (utils/callbacks/pruning.py), *)
(* the seq2seq distillation loss (distillation/seq2seq_distiller.py) and   *)
(* the objective selection of the base module (models/base_lt_module.py).  *)
(*                                                                         *)
(* Tensors are modelled entry by entry: a parameter tensor is a set of     *)
(* scalar entries, each an integer.  Every family of operations has its    *)
(* own specification (SpecLayer, SpecSparsity, SpecThreshold, SpecLoss,    *)
(* SpecDistill); the variables of the other families stay idle.            *)
(***************************************************************************)
EXTENDS Integers, Sequences, FiniteSets

VARIABLES
    \* ---- LayerPruning: the student model and the callback's targets
    encoder_block,              \* student.encoder.block, blocks named by original index
    decoder_block,              \* student.decoder.block
    config_num_layers,          \* student.config.num_layers
    config_num_decoder_layers,  \* student.config.num_decoder_layers
    num_layers,                 \* LayerPruning.num_layers
    num_decoder_layers,         \* LayerPruning.num_decoder_layers
    setup_state,                \* "new" | "returned" | "raised" : outcome of the last setup
    fit_setups,                 \* number of setup(stage='fit') calls that returned
    encoder_orig,               \* history: number of encoder blocks at construction
    encoder_removed             \* history: original indices deleted from the encoder, in order

VARIABLES
    \* ---- the Lightning module the magnitude callbacks act on, entry by entry
    param_name,     \* entry -> dotted name of its parameter, as a sequence of parts
    param_data,     \* entry -> param.data
    param_grad,     \* entry -> param.grad.data
    param_data0,    \* history: param_data at the start of the behaviour
    \* ---- SparsityBasedPruning
    sparsity_level, \* numerator of sparsity_level, in units of 1/SparsityDen
    fit_end_state,  \* "new" | "returned" | "raised" : outcome of the last on_fit_end
    fit_ends        \* number of on_fit_end calls made

VARIABLES
    \* ---- ThresholdBasedPruning and the trainer that calls its hooks
    threshold,            \* ThresholdBasedPruning.threshold
    start_pruning_epoch,  \* ThresholdBasedPruning.start_pruning_epoch
    current_epoch,        \* pl_module.current_epoch
    trainer_pc,           \* "train" | "step" | "epoch_end" | "fit_end" | "done" : the trainer's next move
    grad_computed,        \* history: entry -> the gradient backward left, before the hook
    prune_pass,           \* history: "none" | "epoch_end" | "fit_end" : pass made by the last hook
    pass_zeroed,          \* history: the entries that pass set to zero from a nonzero value
    prune_passes,         \* history: number of pruning passes made since the fit began
    grad_zeroings         \* history: number of _zero_pruned_gradients calls since the fit began

VARIABLES
    \* ---- Seq2SeqDistiller / BaseModule
    alpha,            \* numerator of params.alpha, in units of 1/AlphaDen
    loss_distill,     \* self.loss_distill : "unset" | "mse" | "kl"
    teacher_logits,   \* position -> the teacher's logits over the two classes
    student_logits,   \* position -> the student's logits over the two classes
    s_labels,         \* position -> batch["s_labels"]
    loss_state,       \* "none" | "returned" : whether loss has been called on the batch
    last_loss         \* the DistillationLoss the last call of loss returned

VARIABLES
    \* ---- construction of a module from its training config, and its steps
    module_kind,              \* "BaseModule" | "Seq2SeqDistiller" : the class constructed
    module_state,             \* "new" | "constructed" | "failed" : outcome of __init__
    cfg_distillation_loss,    \* training_config["distillation_loss"], or "absent"
    cfg_objective,            \* training_config["objective"], or "absent"
    objective,                \* BaseModule.objective : "unset" | "ce" | "lsl" | "weighted"
    steps_run,                \* number of steps (training, validation, test) run
    validation_step_outputs,  \* self.validation_step_outputs, each output named by its step
    test_step_outputs,        \* self.test_step_outputs
    s_scorer,                 \* what was added to self.s_scorer, by step
    s_valid_scorer,           \* what was added to self.s_valid_scorer
    s_test_scorer,            \* what was added to self.s_test_scorer
    sanity_checking,          \* self.trainer.sanity_checking
    validation_phase_outputs, \* history: outputs validation_step appended in the current validation phase
    test_phase_outputs,       \* history: outputs test_step appended in the current test phase
    last_report               \* history: the logits of the last epoch-end report, and that phase's own outputs

layerVars == <<encoder_block, decoder_block, config_num_layers,
               config_num_decoder_layers, num_layers, num_decoder_layers,
               setup_state, fit_setups, encoder_orig, encoder_removed>>

moduleVars == <<param_name, param_data, param_grad, param_data0>>

sparsityVars == <<sparsity_level, fit_end_state, fit_ends>>

thresholdVars == <<threshold, start_pruning_epoch, current_epoch, trainer_pc,
                   grad_computed, prune_pass, pass_zeroed, prune_passes,
                   grad_zeroings>>

lossVars == <<alpha, loss_distill, teacher_logits, student_logits, s_labels,
              loss_state, last_loss>>

distillVars == <<module_kind, module_state, cfg_distillation_loss, cfg_objective,
                 objective, steps_run, validation_step_outputs, test_step_outputs,
                 s_scorer, s_valid_scorer, s_test_scorer, sanity_checking,
                 validation_phase_outputs, test_phase_outputs, last_report>>

vars == <<layerVars, moduleVars, sparsityVars, thresholdVars, lossVars, distillVars>>

\* ---------------------------------------------------------------- bounds
MaxBlocks == 12         \* largest number of encoder blocks at construction
MaxDecoderBlocks == 4   \* largest number of decoder blocks at construction
MaxTarget == 6          \* largest target layer count
MaxSetups == 2          \* setup(stage='fit') calls per behaviour
MaxParams == 3          \* largest number of parameter entries of a module
MaxWeight == 3          \* parameter entries range over -MaxWeight..MaxWeight
SparsityDen == 4        \* sparsity levels are the multiples of 1/SparsityDen in [0, 1]
MaxFitEnds == 2         \* on_fit_end calls per behaviour
MaxTrainParams == 2     \* largest number of entries of a module that is trained
MaxTrainWeight == 2     \* entries of a trained module range over -MaxTrainWeight..MaxTrainWeight
MaxEpochs == 2          \* training epochs of a fit
MaxPositions == 4       \* largest number of label positions of a batch
AlphaDen == 2           \* alpha ranges over the multiples of 1/AlphaDen in [0, 1]
MaxSteps == 2           \* steps run on a constructed module
MaxStepPositions == 1   \* largest number of label positions of a step's batch

\* ---------------------------------------------------------------- program constants
ignore_index == -100    \* default of loss(..., ignore_index=-100)

\* ---------------------------------------------------------------- helpers
\* [0, 1, ..., n-1] : the blocks of a freshly built stack, named by index
Blocks(n) == [i \in 1..n |-> i - 1]

\* reversed(seq)
Reversed(s) == [i \in 1..Len(s) |-> s[Len(s) + 1 - i]]

\* no epoch-end report made yet
NoReport == [hook |-> "none", logits |-> <<>>, phase_outputs |-> <<>>]

\* ---------------------------------------------------------------- idle values
\* what the variables of a callback family hold in the other specifications
IdleLayer ==
    /\ encoder_block = <<>>
    /\ decoder_block = <<>>
    /\ config_num_layers = 0
    /\ config_num_decoder_layers = 0
    /\ num_layers = 0
    /\ num_decoder_layers = 0
    /\ setup_state = "new"
    /\ fit_setups = 0
    /\ encoder_orig = 0
    /\ encoder_removed = <<>>

IdleModule ==
    /\ param_name = <<>>
    /\ param_data = <<>>
    /\ param_grad = <<>>
    /\ param_data0 = <<>>

IdleSparsity ==
    /\ sparsity_level = 0
    /\ fit_end_state = "new"
    /\ fit_ends = 0

IdleThreshold ==
    /\ threshold = 0
    /\ start_pruning_epoch = 0
    /\ current_epoch = 0
    /\ trainer_pc = "idle"
    /\ grad_computed = <<>>
    /\ prune_pass = "none"
    /\ pass_zeroed = {}
    /\ prune_passes = 0
    /\ grad_zeroings = 0

\* a scalar tensor: a fixed-point number, or NaN
Scalar(v) == [nan |-> FALSE, v |-> v]
NaN == [nan |-> TRUE, v |-> 0]

IdleLoss ==
    /\ alpha = 0
    /\ loss_distill = "unset"
    /\ teacher_logits = <<>>
    /\ student_logits = <<>>
    /\ s_labels = <<>>
    /\ loss_state = "none"
    /\ last_loss = [kd_loss |-> Scalar(0), objective |-> Scalar(0), full_loss |-> Scalar(0)]

IdleDistill ==
    /\ module_kind = "none"
    /\ module_state = "new"
    /\ cfg_distillation_loss = "absent"
    /\ cfg_objective = "absent"
    /\ objective = "unset"
    /\ steps_run = 0
    /\ validation_step_outputs = <<>>
    /\ test_step_outputs = <<>>
    /\ s_scorer = <<>>
    /\ s_valid_scorer = <<>>
    /\ s_test_scorer = <<>>
    /\ sanity_checking = FALSE
    /\ validation_phase_outputs = <<>>
    /\ test_phase_outputs = <<>>
    /\ last_report = NoReport

\* ================================================================
\* LayerPruning
\* ================================================================

\* faulty variant: the range started at 0: the even indices
layers_to_remove_even(final_size) == [i \in 1..final_size |-> 2 * i - 2]

\* [i for i in range(1, final_size * 2, 2)]
layers_to_remove(final_size) == [i \in 1..final_size |-> 2 * i - 1]

\* `del block[i]` for each i of idxs in turn.  Python indices are 0-based; an
\* index outside the list raises IndexError and leaves the list as it then is.
RECURSIVE DelEach(_, _, _)
DelEach(block, idxs, removed) ==
    IF idxs = <<>> THEN [block |-> block, removed |-> removed, ok |-> TRUE]
    ELSE LET i == Head(idxs) IN
         IF i >= Len(block) THEN [block |-> block, removed |-> removed, ok |-> FALSE]
         ELSE DelEach([j \in 1..(Len(block) - 1) |->
                          IF j <= i THEN block[j] ELSE block[j + 1]],
                      Tail(idxs),
                      Append(removed, block[i + 1]))

\* for i in reversed(self._layers_to_remove(final_size)): del block[i]
PruneBlocks(block, final_size) ==
    DelEach(block, Reversed(layers_to_remove(final_size)), <<>>)

\* LayerPruning.setup(trainer, pl_module, stage)
setup(stage) ==
    /\ setup_state # "raised"
    /\ fit_setups < MaxSetups
    /\ IF stage = "fit"
       THEN LET doDec == config_num_decoder_layers # num_decoder_layers
                dec == IF doDec THEN PruneBlocks(decoder_block, num_decoder_layers)
                       ELSE [block |-> decoder_block, removed |-> <<>>, ok |-> TRUE]
                doEnc == dec.ok /\ config_num_layers # num_layers
                enc == IF doEnc THEN PruneBlocks(encoder_block, num_layers)
                       ELSE [block |-> encoder_block, removed |-> <<>>, ok |-> TRUE]
            IN /\ decoder_block' = dec.block
               /\ config_num_decoder_layers' =
                      IF doDec /\ dec.ok THEN num_decoder_layers
                      ELSE config_num_decoder_layers
               /\ encoder_block' = enc.block
               /\ config_num_layers' =
                      IF doEnc /\ enc.ok THEN num_layers ELSE config_num_layers
               /\ encoder_removed' = encoder_removed \o enc.removed
               /\ setup_state' = IF dec.ok /\ enc.ok THEN "returned" ELSE "raised"
               /\ fit_setups' = IF dec.ok /\ enc.ok THEN fit_setups + 1 ELSE fit_setups
       ELSE /\ setup_state' = "returned"
            /\ UNCHANGED <<encoder_block, decoder_block, config_num_layers,
                           config_num_decoder_layers, encoder_removed, fit_setups>>
    /\ UNCHANGED <<num_layers, num_decoder_layers, encoder_orig>>
    /\ UNCHANGED <<moduleVars, sparsityVars, thresholdVars, lossVars, distillVars>>

SetupFit == setup("fit")
SetupTest == setup("test")

\* ================================================================
\* The module a magnitude callback is handed (pl_module)
\* ================================================================

Abs(x) == IF x < 0 THEN -x ELSE x

\* `part in name`: the dotted name has the given part
NameHas(name, part) == \E j \in 1..Len(name) : name[j] = part

\* Parameter names of a module of n entries.  A plain module (teachers = -1)
\* has no submodule called "student"; a distiller registers its teacher and
\* then its student, the first `teachers` entries being the teacher's.  The
\* last `biases` entries are a bias, every other entry belongs to a weight.
Layout(n, teachers, biases) ==
    [i \in 1..n |->
        IF teachers < 0
        THEN <<"classifier", IF i > n - biases THEN "bias" ELSE "weight">>
        ELSE IF i <= teachers
             THEN <<"teacher", "classifier", "weight">>
             ELSE <<"student", "classifier",
                    IF i > n - biases THEN "bias" ELSE "weight">>]

\* the modules of n entries: the pruned module has a weight, and at most one bias entry
Layouts(n) ==
    {Layout(n, teachers, biases) :
        teachers \in -1..(n - 1),
        biases \in {b \in 0..1 : b < n}} \ {Layout(n, n - 1, 1)}

\* pl_module.parameters() / pl_module.named_parameters(): every entry
Entries == DOMAIN param_name

\* pl_module.get_submodule("student") when there is one, else pl_module
\* (the AttributeError is swallowed): the entries of the module pruned
HasStudent == \E i \in Entries : param_name[i][1] = "student"
PrunedModule == IF HasStudent THEN {i \in Entries : param_name[i][1] = "student"}
                ELSE Entries

\* ================================================================
\* SparsityBasedPruning
\* ================================================================

\* position of the smallest element of a non-empty sequence (first among equals)
ArgMin(s) == CHOOSE i \in 1..Len(s) :
                /\ \A j \in 1..Len(s) : s[i] <= s[j]
                /\ \A j \in 1..(i - 1) : s[j] > s[i]

RemoveAt(s, i) == [j \in 1..(Len(s) - 1) |-> IF j < i THEN s[j] ELSE s[j + 1]]

\* torch.topk(values, k, largest=False, sorted=True)[0]: the k smallest, ascending
RECURSIVE topk_smallest(_, _)
topk_smallest(values, k) ==
    IF k = 0 THEN <<>>
    ELSE LET i == ArgMin(values) IN
         <<values[i]>> \o topk_smallest(RemoveAt(values, i), k - 1)

\* int(self.sparsity_level * flatten_parameters.numel())
bottom_count(level, numel) == (level * numel) \div SparsityDen

\* faulty variant: the mask taken with torch.gt
sparsity_mask_gt(value, thresh) == Abs(value) > thresh

\* mask = torch.lt(torch.abs(param), threshold)
sparsity_mask(value, thresh) == Abs(value) < thresh

\* SparsityBasedPruning._prune_model(threshold, pl_module)
sparsity_prune_model(thresh) ==
    [i \in Entries |->
        IF i \in PrunedModule /\ sparsity_mask(param_data[i], thresh)
        THEN 0 ELSE param_data[i]]

\* bottom_k.data[-1] of the flattened absolute values of pl_module.parameters()
sparsity_threshold(bottom_k) == bottom_k[Len(bottom_k)]

\* SparsityBasedPruning.on_fit_end(trainer, pl_module)
sparsity_on_fit_end ==
    /\ fit_end_state # "raised"
    /\ fit_ends < MaxFitEnds
    /\ fit_ends' = fit_ends + 1
    /\ LET flatten_abs == [i \in Entries |-> Abs(param_data[i])]
           k == bottom_count(sparsity_level, Len(flatten_abs))
           bottom_k == topk_smallest(flatten_abs, k)
       IN IF sparsity_level = 0
          THEN /\ fit_end_state' = "returned"
               /\ UNCHANGED param_data
          ELSE IF bottom_k = <<>>
          THEN \* indexing an empty tensor with -1 raises IndexError
               /\ fit_end_state' = "raised"
               /\ UNCHANGED param_data
          ELSE /\ fit_end_state' = "returned"
               /\ param_data' = sparsity_prune_model(sparsity_threshold(bottom_k))
    /\ UNCHANGED <<param_name, param_grad, param_data0, sparsity_level>>
    /\ UNCHANGED <<layerVars, thresholdVars, lossVars, distillVars>>

\* ================================================================
\* ThresholdBasedPruning
\* ================================================================

\* faulty variant: the hooks start one epoch late
pruning_started_late(epoch) ==
    epoch > start_pruning_epoch /\ start_pruning_epoch # -1

\* faulty variant: the -1 sentinel not excluded from the per-epoch hooks
pruning_started_any(epoch) == epoch >= start_pruning_epoch

\* pl_module.current_epoch >= self.start_pruning_epoch != -1
pruning_started(epoch) ==
    epoch >= start_pruning_epoch /\ start_pruning_epoch # -1

\* faulty variant: the mask taken with the comparison turned round
threshold_mask_gt(value) == Abs(value) > threshold

\* param_mask = torch.abs(param) < self.threshold
threshold_mask(value) == Abs(value) < threshold

\* ThresholdBasedPruning._prune_model(pl_module)
threshold_prune_model ==
    [i \in Entries |->
        IF /\ i \in PrunedModule
           /\ NameHas(param_name[i], "weight")
           /\ threshold_mask(param_data[i])
        THEN 0 ELSE param_data[i]]

\* the entries a pass producing `pruned` sets to zero from a nonzero value
ZeroedBy(pruned) == {i \in Entries : param_data[i] # 0 /\ pruned[i] = 0}

\* ThresholdBasedPruning._zero_pruned_gradients(pl_module), on gradients grad
zero_pruned_gradients(grad) ==
    [i \in Entries |->
        IF NameHas(param_name[i], "weight") /\ param_data[i] = 0
        THEN 0 ELSE grad[i]]

\* The gradients backward may leave: one unit step either way or none, within
\* the modelled range of the entries; the teacher of a distiller is frozen.
GradSteps == {-1, 0, 1}
Gradients ==
    {g \in [Entries -> GradSteps] :
        \A i \in Entries :
            /\ Abs(param_data[i] - g[i]) <= MaxTrainWeight
            /\ param_name[i][1] = "teacher" => g[i] = 0}

\* ThresholdBasedPruning.on_before_optimizer_step(trainer, pl_module, optimizer),
\* called with the gradients grad of the batch in param.grad
threshold_on_before_optimizer_step ==
    /\ trainer_pc = "train"
    /\ \E grad \in Gradients :
          /\ grad_computed' = grad
          /\ param_grad' = IF pruning_started(current_epoch)
                           THEN zero_pruned_gradients(grad) ELSE grad
    /\ grad_zeroings' = IF pruning_started(current_epoch)
                        THEN grad_zeroings + 1 ELSE grad_zeroings
    /\ trainer_pc' = "step"
    /\ prune_pass' = "none"
    /\ pass_zeroed' = {}
    /\ UNCHANGED <<param_name, param_data, param_data0, threshold,
                   start_pruning_epoch, current_epoch, prune_passes>>
    /\ UNCHANGED <<layerVars, sparsityVars, lossVars, distillVars>>

\* optimizer.step() with a unit learning rate, w := w - lr * grad, and
\* optimizer.zero_grad(); the epoch's training loop then ends
optimizer_step ==
    /\ trainer_pc = "step"
    /\ param_data' = [i \in Entries |-> param_data[i] - param_grad[i]]
    /\ param_grad' = [i \in Entries |-> 0]
    /\ grad_computed' = [i \in Entries |-> 0]
    /\ trainer_pc' = "epoch_end"
    /\ prune_pass' = "none"
    /\ pass_zeroed' = {}
    /\ UNCHANGED <<param_name, param_data0, threshold, start_pruning_epoch,
                   current_epoch, prune_passes, grad_zeroings>>
    /\ UNCHANGED <<layerVars, sparsityVars, lossVars, distillVars>>

\* ThresholdBasedPruning.on_train_epoch_end(trainer, pl_module); the trainer
\* then starts the next epoch or ends the fit
threshold_on_train_epoch_end ==
    /\ trainer_pc = "epoch_end"
    /\ IF pruning_started(current_epoch)
       THEN /\ param_data' = threshold_prune_model
            /\ prune_pass' = "epoch_end"
            /\ pass_zeroed' = ZeroedBy(threshold_prune_model)
            /\ prune_passes' = prune_passes + 1
       ELSE /\ UNCHANGED <<param_data, prune_passes>>
            /\ prune_pass' = "none"
            /\ pass_zeroed' = {}
    /\ current_epoch' = current_epoch + 1
    /\ trainer_pc' = IF current_epoch + 1 < MaxEpochs THEN "train" ELSE "fit_end"
    /\ UNCHANGED <<param_name, param_grad, param_data0, threshold,
                   start_pruning_epoch, grad_computed, grad_zeroings>>
    /\ UNCHANGED <<layerVars, sparsityVars, lossVars, distillVars>>

\* ThresholdBasedPruning.on_fit_end(trainer, pl_module)
threshold_on_fit_end ==
    /\ trainer_pc = "fit_end"
    /\ IF start_pruning_epoch = -1
       THEN /\ param_data' = threshold_prune_model
            /\ prune_pass' = "fit_end"
            /\ pass_zeroed' = ZeroedBy(threshold_prune_model)
            /\ prune_passes' = prune_passes + 1
       ELSE /\ UNCHANGED <<param_data, prune_passes>>
            /\ prune_pass' = "none"
            /\ pass_zeroed' = {}
    /\ trainer_pc' = "done"
    /\ UNCHANGED <<param_name, param_grad, param_data0, threshold,
                   start_pruning_epoch, current_epoch, grad_computed, grad_zeroings>>
    /\ UNCHANGED <<layerVars, sparsityVars, lossVars, distillVars>>

\* a module of 1..MaxParams entries, plain or a distiller, with any weights
InitModule ==
    /\ \E n \in 1..MaxParams :
          /\ param_name \in Layouts(n)
          /\ param_data \in [1..n -> (-MaxWeight)..MaxWeight]
          /\ param_grad = [i \in 1..n |-> 0]
    /\ param_data0 = param_data

InitSparsity ==
    /\ IdleLayer /\ IdleThreshold /\ IdleLoss /\ IdleDistill
    /\ InitModule
    /\ sparsity_level \in 0..SparsityDen
    /\ fit_end_state = "new"
    /\ fit_ends = 0

NextSparsity == sparsity_on_fit_end

SpecSparsity == InitSparsity /\ [][NextSparsity]_vars

\* a trained module of 1..MaxTrainParams entries, at the start of a fit
InitThreshold ==
    /\ IdleLayer /\ IdleSparsity /\ IdleLoss /\ IdleDistill
    /\ \E n \in 1..MaxTrainParams :
          /\ param_name \in Layouts(n)
          /\ param_data \in [1..n -> (-MaxTrainWeight)..MaxTrainWeight]
          /\ param_grad = [i \in 1..n |-> 0]
          /\ grad_computed = [i \in 1..n |-> 0]
    /\ param_data0 = <<>>
    /\ threshold \in 1..MaxTrainWeight
    /\ start_pruning_epoch \in -1..(MaxEpochs - 1)
    /\ current_epoch = 0
    /\ trainer_pc = "train"
    /\ prune_pass = "none"
    /\ pass_zeroed = {}
    /\ prune_passes = 0
    /\ grad_zeroings = 0

NextThreshold ==
    \/ threshold_on_before_optimizer_step
    \/ optimizer_step
    \/ threshold_on_train_epoch_end
    \/ threshold_on_fit_end

SpecThreshold == InitThreshold /\ [][NextThreshold]_vars

InitLayer ==
    /\ IdleModule /\ IdleSparsity /\ IdleThreshold /\ IdleLoss /\ IdleDistill
    /\ \E n \in 0..MaxBlocks :
          /\ encoder_block = Blocks(n)
          /\ config_num_layers = n
          /\ encoder_orig = n
    /\ \E n \in 0..MaxDecoderBlocks :
          /\ decoder_block = Blocks(n)
          /\ config_num_decoder_layers = n
    /\ num_layers \in 0..MaxTarget
    /\ num_decoder_layers \in 0..MaxTarget
    /\ setup_state = "new"
    /\ fit_setups = 0
    /\ encoder_removed = <<>>

NextLayer == SetupFit \/ SetupTest

SpecLayer == InitLayer /\ [][NextLayer]_vars

\* ================================================================
\* Seq2SeqDistiller.loss
\* ================================================================
\* Losses are fixed-point numbers in units of 1/100; full_loss, a combination
\* with weights in units of 1/AlphaDen, is in units of 1/(100 * AlphaDen).

\* c * x and x + y on scalar tensors
Times(c, x) == IF x.nan THEN NaN ELSE Scalar(c * x.v)
Plus(x, y) == IF x.nan \/ y.nan THEN NaN ELSE Scalar(x.v + y.v)

\* sum of the integer sequence s
RECURSIVE SumSeq(_)
SumSeq(s) == IF s = <<>> THEN 0 ELSE Head(s) + SumSeq(Tail(s))

\* tensor[mask]: the rows of tensor where the boolean mask is set, in order
RECURSIVE masked_select(_, _)
masked_select(tensor, mask) ==
    IF tensor = <<>> THEN <<>>
    ELSE (IF Head(mask) THEN <<Head(tensor)>> ELSE <<>>)
         \o masked_select(Tail(tensor), Tail(mask))

\* -log softmax(row)[label] for a row of two logits, in units of 1/100:
\* ln(1 + e^d) with d the other class's logit minus the label's
CrossEntropyRow(row, label) ==
    LET d == row[2 - label] - row[label + 1]
    IN IF d < 0 THEN 31 ELSE IF d = 0 THEN 69 ELSE 131

\* torch.nn.CrossEntropyLoss()(logits, labels): the mean over the rows, NaN over none
loss_ce(logits, labels) ==
    IF logits = <<>> THEN NaN
    ELSE Scalar(SumSeq([i \in 1..Len(logits) |-> CrossEntropyRow(logits[i], labels[i])])
                \div Len(logits))

\* torch.nn.MSELoss()(teacher, student): the mean of the squared differences
\* over every element of the two tensors
MSELoss(teacher, student) ==
    IF teacher = <<>> THEN NaN
    ELSE Scalar((100 * SumSeq([i \in 1..Len(teacher) |->
                      (teacher[i][1] - student[i][1]) * (teacher[i][1] - student[i][1])
                    + (teacher[i][2] - student[i][2]) * (teacher[i][2] - student[i][2])]))
                \div (2 * Len(teacher)))

\* KL(softmax(teacher row) || softmax(student row)) in units of 1/100, for a
\* teacher row of two logits one apart, p = (e, 1) / (1 + e): 0 against the
\* same row, 0.11 against a student undecided between the classes, 0.46
\* against a student that prefers the other class
KLRow(t, s) == IF t = s THEN 0 ELSE IF s[1] = s[2] THEN 11 ELSE 46

\* KLDivLoss()(teacher, student): the divergence summed over the positions
\* and averaged over them
KLDivLoss(teacher, student) ==
    IF teacher = <<>> THEN NaN
    ELSE Scalar(SumSeq([i \in 1..Len(teacher) |-> KLRow(teacher[i], student[i])])
                \div Len(teacher))

\* self.loss_distill(teacher_logits, student_logits)
loss_distill_call(teacher, student) ==
    IF loss_distill = "mse" THEN MSELoss(teacher, student) ELSE KLDivLoss(teacher, student)

\* active_idx = labels != ignore_index
active_idx(labels, ignore) == [i \in 1..Len(labels) |-> labels[i] # ignore]

\* faulty variant: the two weights of the combination exchanged
full_loss_swapped(kd_loss, task_loss) ==
    Plus(Times(alpha, kd_loss), Times(AlphaDen - alpha, task_loss))

\* full_loss = (1 - self.params.alpha) * kd_loss + self.params.alpha * objective
full_loss_of(kd_loss, task_loss) ==
    Plus(Times(AlphaDen - alpha, kd_loss), Times(alpha, task_loss))

\* faulty variant: the task loss evaluated whether or not a label is active
objective_unguarded(student, labels, active) ==
    loss_ce(masked_select(student, active), masked_select(labels, active))

\* the objective of loss: the task loss over the active positions, or an exact zero
objective_of(student, labels, active) ==
    IF SumSeq([i \in 1..Len(active) |-> IF active[i] THEN 1 ELSE 0]) > 0
    THEN loss_ce(masked_select(student, active), masked_select(labels, active))
    ELSE Scalar(0)

\* faulty variant: the distillation term taken over the active positions only
kd_loss_masked(teacher, student, active) ==
    loss_distill_call(masked_select(teacher, active), masked_select(student, active))

\* kd_loss = self.loss_distill(teacher_logits, student_logits)
kd_loss_of(teacher, student, active) == loss_distill_call(teacher, student)

\* Seq2SeqDistiller.loss(teacher_logits, student_logits, labels, ignore_index)
loss(teacher, student, labels, ignore) ==
    LET active == active_idx(labels, ignore)
        task_loss == objective_of(student, labels, active)
        kd_loss == kd_loss_of(teacher, student, active)
    IN [kd_loss |-> kd_loss,
        objective |-> task_loss,
        full_loss |-> full_loss_of(kd_loss, task_loss)]

\* a call self.loss(t_logits, s_logits, batch["s_labels"]) on the batch at hand
loss_call ==
    /\ loss_state = "none"
    /\ last_loss' = loss(teacher_logits, student_logits, s_labels, ignore_index)
    /\ loss_state' = "returned"
    /\ UNCHANGED <<alpha, loss_distill, teacher_logits, student_logits, s_labels>>
    /\ UNCHANGED <<layerVars, moduleVars, sparsityVars, thresholdVars, distillVars>>

\* logits over two classes: the teacher prefers class 0, the student either
\* class or neither; labels: a class or ignore_index
TeacherRows == {<<1, 0>>}
StudentRows == {<<1, 0>>, <<0, 1>>, <<0, 0>>}
Labels == {ignore_index, 0, 1}

\* a constructed distiller and a batch of 1..MaxPositions label positions
InitLoss ==
    /\ IdleLayer /\ IdleModule /\ IdleSparsity /\ IdleThreshold
    /\ alpha \in 0..AlphaDen
    /\ loss_distill \in {"mse", "kl"}
    /\ module_kind = "Seq2SeqDistiller"
    /\ module_state = "constructed"
    /\ cfg_distillation_loss = loss_distill
    /\ cfg_objective = "absent"
    /\ objective = "unset"
    /\ steps_run = 0
    /\ validation_step_outputs = <<>>
    /\ test_step_outputs = <<>>
    /\ s_scorer = <<>>
    /\ s_valid_scorer = <<>>
    /\ s_test_scorer = <<>>
    /\ sanity_checking = FALSE
    /\ validation_phase_outputs = <<>>
    /\ test_phase_outputs = <<>>
    /\ last_report = NoReport
    /\ \E n \in 1..MaxPositions :
          /\ teacher_logits \in [1..n -> TeacherRows]
          /\ student_logits \in [1..n -> StudentRows]
          /\ s_labels \in [1..n -> Labels]
    /\ loss_state = "none"
    /\ last_loss = [kd_loss |-> Scalar(0), objective |-> Scalar(0), full_loss |-> Scalar(0)]

NextLoss == loss_call

SpecLoss == InitLoss /\ [][NextLoss]_vars

\* ================================================================
\* Construction (objective selection) and the steps
\* ================================================================

\* the identifiers a training config may give, one of them unknown to the module
DistillationLossKeys == {"absent", "kl", "mse", "cosine"}
ObjectiveKeys == {"absent", "ce", "lsl", "weighted", "focal"}

\* faulty variant: an unknown identifier falls back to the default
distill_lookup_default(key) == IF key \in {"mse", "kl"} THEN key ELSE "kl"

\* {"mse": torch.nn.MSELoss(), "kl": KLDivLoss()}[key]
distill_lookup(key) == IF key \in {"mse", "kl"} THEN key ELSE "KeyError"

\* {"ce": ..., "lsl": ..., "weighted": ...}[key]
objective_lookup(key) == IF key \in {"ce", "lsl", "weighted"} THEN key ELSE "KeyError"

\* config.get(key, default), for the value cfg the config holds under key
config_get(cfg, default) == IF cfg = "absent" THEN default ELSE cfg

\* Seq2SeqDistiller._set_objectives()
set_objectives == distill_lookup(config_get(cfg_distillation_loss, "kl"))

\* BaseModule._set_objective()
set_objective == objective_lookup(config_get(cfg_objective, "ce"))

\* Seq2SeqDistiller.__init__(teacher, student, training_config)
seq2seq_distiller_init ==
    /\ module_kind = "Seq2SeqDistiller"
    /\ module_state = "new"
    /\ IF set_objectives = "KeyError"
       THEN /\ module_state' = "failed"
            /\ UNCHANGED loss_distill
       ELSE /\ module_state' = "constructed"
            /\ loss_distill' = set_objectives
    /\ UNCHANGED <<module_kind, cfg_distillation_loss, cfg_objective, objective,
                   steps_run, validation_step_outputs, test_step_outputs,
                   s_scorer, s_valid_scorer, s_test_scorer, sanity_checking,
                   validation_phase_outputs, test_phase_outputs, last_report>>
    /\ UNCHANGED <<alpha, teacher_logits, student_logits, s_labels, loss_state, last_loss>>
    /\ UNCHANGED <<layerVars, moduleVars, sparsityVars, thresholdVars>>

\* BaseModule.__init__(training_config, model_config, num_labels)
base_module_init ==
    /\ module_kind = "BaseModule"
    /\ module_state = "new"
    /\ IF set_objective = "KeyError"
       THEN /\ module_state' = "failed"
            /\ UNCHANGED objective
       ELSE /\ module_state' = "constructed"
            /\ objective' = set_objective
    /\ UNCHANGED <<module_kind, cfg_distillation_loss, cfg_objective, loss_distill,
                   steps_run, validation_step_outputs, test_step_outputs,
                   s_scorer, s_valid_scorer, s_test_scorer, sanity_checking,
                   validation_phase_outputs, test_phase_outputs, last_report>>
    /\ UNCHANGED <<alpha, teacher_logits, student_logits, s_labels, loss_state, last_loss>>
    /\ UNCHANGED <<layerVars, moduleVars, sparsityVars, thresholdVars>>

\* the batch of a step and the logits get_teacher_logits / get_student_logits
\* give on it; the step computes self.loss(t_logits, s_logits, batch["s_labels"])
StepLoss(labels) ==
    /\ module_kind = "Seq2SeqDistiller"
    /\ module_state = "constructed"
    /\ steps_run < MaxSteps
    /\ steps_run' = steps_run + 1
    /\ \E n \in 1..MaxStepPositions :
          /\ teacher_logits' \in [1..n -> TeacherRows]
          /\ student_logits' \in [1..n -> StudentRows]
          /\ s_labels' \in [1..n -> labels]
    /\ last_loss' = loss(teacher_logits', student_logits', s_labels', ignore_index)
    /\ loss_state' = "returned"
    /\ UNCHANGED <<module_kind, module_state, cfg_distillation_loss, cfg_objective,
                   objective, alpha, loss_distill, sanity_checking, last_report>>
    /\ UNCHANGED <<layerVars, moduleVars, sparsityVars, thresholdVars>>

\* Seq2SeqDistiller.training_step(batch, _); the trainer's sanity check runs
\* validation batches only
training_step ==
    /\ ~sanity_checking
    /\ StepLoss(Labels)
    /\ s_scorer' = Append(s_scorer, steps_run')
    /\ UNCHANGED <<validation_step_outputs, test_step_outputs, s_valid_scorer,
                   s_test_scorer, validation_phase_outputs, test_phase_outputs>>

\* Seq2SeqDistiller.test_step(batch, _)
test_step ==
    /\ ~sanity_checking
    /\ StepLoss(Labels)
    /\ s_test_scorer' = Append(s_test_scorer, steps_run')
    /\ test_step_outputs' = Append(test_step_outputs, steps_run')
    /\ test_phase_outputs' = Append(test_phase_outputs, steps_run')
    /\ UNCHANGED <<validation_step_outputs, s_scorer, s_valid_scorer,
                   validation_phase_outputs>>

\* Seq2SeqDistiller.validation_step(batch, _)
validation_step ==
    /\ StepLoss(Labels)
    /\ s_valid_scorer' = Append(s_valid_scorer, steps_run')
    /\ validation_step_outputs' = Append(validation_step_outputs, steps_run')
    /\ validation_phase_outputs' = Append(validation_phase_outputs, steps_run')
    /\ UNCHANGED <<test_step_outputs, s_scorer, s_test_scorer, test_phase_outputs>>

\* what the epoch-end hooks leave alone: the batch, the last loss, the config
EpochEndFrame ==
    /\ UNCHANGED <<module_kind, module_state, cfg_distillation_loss, cfg_objective,
                   objective, steps_run, s_scorer>>
    /\ UNCHANGED lossVars
    /\ UNCHANGED <<layerVars, moduleVars, sparsityVars, thresholdVars>>

\* [pred["logits"] for pred in outputs], each output's logits named by its step
buffered_logits(outputs) == outputs

\* Seq2SeqDistiller.on_validation_epoch_end(), called by the trainer when a
\* validation phase that ran batches ends; the sanity check is one such
\* phase, over when the hook returns
on_validation_epoch_end ==
    /\ module_kind = "Seq2SeqDistiller"
    /\ module_state = "constructed"
    /\ validation_phase_outputs # <<>>
    /\ last_report' = IF ~sanity_checking
                      THEN [hook |-> "validation",
                            logits |-> buffered_logits(validation_step_outputs),
                            phase_outputs |-> validation_phase_outputs]
                      ELSE last_report
    /\ s_valid_scorer' = <<>>
    /\ sanity_checking' = FALSE
    /\ validation_phase_outputs' = <<>>
    /\ UNCHANGED <<validation_step_outputs, test_step_outputs, s_test_scorer,
                   test_phase_outputs>>
    /\ EpochEndFrame

\* Seq2SeqDistiller.on_test_epoch_end(), called by the trainer when a test
\* phase that ran batches ends
on_test_epoch_end ==
    /\ module_kind = "Seq2SeqDistiller"
    /\ module_state = "constructed"
    /\ test_phase_outputs # <<>>
    /\ last_report' = [hook |-> "test",
                       logits |-> buffered_logits(test_step_outputs),
                       phase_outputs |-> test_phase_outputs]
    /\ s_test_scorer' = <<>>
    /\ test_phase_outputs' = <<>>
    /\ UNCHANGED <<validation_step_outputs, test_step_outputs, s_valid_scorer,
                   validation_phase_outputs, sanity_checking>>
    /\ EpochEndFrame

\* self.objective(logits, labels): with the default smoothing (0.0) and
\* class weights (all 1.0) each of "ce", "lsl" and "weighted" is the cross entropy
objective_call(logits, labels) == loss_ce(logits, labels)

\* BaseModule.loss(logits, labels), as a step of a subclass calls it; the
\* value returned is held as the objective of last_loss
base_module_loss ==
    /\ module_kind = "BaseModule"
    /\ module_state = "constructed"
    /\ steps_run < MaxSteps
    /\ steps_run' = steps_run + 1
    /\ \E n \in 1..MaxStepPositions :
          /\ student_logits' \in [1..n -> StudentRows]
          /\ s_labels' \in [1..n -> {0, 1}]
    /\ last_loss' = [kd_loss |-> Scalar(0),
                     objective |-> objective_call(student_logits', s_labels'),
                     full_loss |-> Scalar(0)]
    /\ loss_state' = "returned"
    /\ UNCHANGED <<module_kind, module_state, cfg_distillation_loss, cfg_objective,
                   objective, alpha, loss_distill, teacher_logits>>
    /\ UNCHANGED <<validation_step_outputs, test_step_outputs, s_scorer,
                   s_valid_scorer, s_test_scorer, sanity_checking,
                   validation_phase_outputs, test_phase_outputs, last_report>>
    /\ UNCHANGED <<layerVars, moduleVars, sparsityVars, thresholdVars>>

\* a training config and the class about to be constructed from it
InitDistill ==
    /\ IdleLayer /\ IdleModule /\ IdleSparsity /\ IdleThreshold
    /\ alpha \in 0..AlphaDen
    /\ loss_distill = "unset"
    /\ teacher_logits = <<>>
    /\ student_logits = <<>>
    /\ s_labels = <<>>
    /\ loss_state = "none"
    /\ last_loss = [kd_loss |-> Scalar(0), objective |-> Scalar(0), full_loss |-> Scalar(0)]
    /\ module_kind \in {"BaseModule", "Seq2SeqDistiller"}
    /\ module_state = "new"
    /\ cfg_distillation_loss \in DistillationLossKeys
    /\ cfg_objective \in ObjectiveKeys
    /\ module_kind = "BaseModule" => cfg_distillation_loss = "absent"
    /\ module_kind = "Seq2SeqDistiller" => cfg_objective = "absent"
    /\ objective = "unset"
    /\ steps_run = 0
    /\ validation_step_outputs = <<>>
    /\ test_step_outputs = <<>>
    /\ s_scorer = <<>>
    /\ s_valid_scorer = <<>>
    /\ s_test_scorer = <<>>
    /\ sanity_checking \in BOOLEAN
    /\ module_kind = "BaseModule" => sanity_checking = FALSE
    /\ validation_phase_outputs = <<>>
    /\ test_phase_outputs = <<>>
    /\ last_report = NoReport

NextDistill ==
    \/ seq2seq_distiller_init
    \/ base_module_init
    \/ training_step
    \/ validation_step
    \/ test_step
    \/ on_validation_epoch_end
    \/ on_test_epoch_end
    \/ base_module_loss

SpecDistill == InitDistill /\ [][NextDistill]_vars

\* ================================================================
\* Claims about LayerPruning (SpecLayer)
\* ================================================================

\* C2: after setup(stage='fit') returns, the encoder has exactly num_layers
\* blocks and the decoder exactly num_decoder_layers blocks, which are also
\* the counts recorded in the student's config.
C2_BlockCountsMatchTargets ==
    (fit_setups >= 1 /\ setup_state = "returned") =>
        /\ Len(encoder_block) = num_layers
        /\ Len(decoder_block) = num_decoder_layers
        /\ Len(encoder_block) = config_num_layers
        /\ Len(decoder_block) = config_num_decoder_layers

\* C3: with num_layers = 6 on a 12-block encoder recorded as 12, setup('fit')
\* deletes the blocks of original indices 11, 9, 7, 5, 3, 1 in that order,
\* keeps 0, 2, 4, 6, 8, 10 in order and records 6 layers; a further
\* setup('fit') removes nothing more.
C3_EvenDecimationOfTwelve ==
    (encoder_orig = 12 /\ num_layers = 6 /\ fit_setups >= 1) =>
        /\ encoder_block = <<0, 2, 4, 6, 8, 10>>
        /\ encoder_removed = <<11, 9, 7, 5, 3, 1>>
        /\ config_num_layers = 6

C3_Witness ==
    /\ encoder_orig = 12 /\ num_layers = 6
    /\ fit_setups = 2 /\ setup_state = "returned"
    /\ Len(encoder_removed) = 6

\* ================================================================
\* Claims about SparsityBasedPruning (SpecSparsity)
\* ================================================================

DistinctAbs(data) ==
    \A i, j \in DOMAIN data : i # j => Abs(data[i]) # Abs(data[j])

ZeroEntries == {i \in Entries : param_data[i] = 0}

\* C1: on_fit_end with sparsity_level s > 0 on a model of N entries whose
\* absolute values are pairwise distinct leaves exactly floor(s*N) entries
\* equal to zero.
C1_ExactlyFloorZeroed ==
    (/\ fit_ends >= 1 /\ fit_end_state = "returned"
     /\ sparsity_level > 0
     /\ ~HasStudent
     /\ DistinctAbs(param_data0)) =>
        Cardinality(ZeroEntries) = (sparsity_level * Len(param_data)) \div SparsityDen

\* C6: a second on_fit_end with the same sparsity_level, on the model the
\* first one produced, changes no parameter entry.
C6_SecondFitEndChangesNothing ==
    [][fit_ends >= 1 => param_data' = param_data]_vars

C6_Witness ==
    /\ fit_ends = 2 /\ fit_end_state = "returned"
    /\ param_data # param_data0

\* ================================================================
\* Claims about ThresholdBasedPruning (SpecThreshold)
\* ================================================================

IsWeight(i) == NameHas(param_name[i], "weight")

\* C4: right after a pruning pass with threshold T, every entry of every
\* "weight"-named parameter of the pruned model is zero or has magnitude >= T.
C4_PrunedWeightsZeroOrAtLeastThreshold ==
    prune_pass # "none" =>
        \A i \in PrunedModule :
            IsWeight(i) => (param_data[i] = 0 \/ Abs(param_data[i]) >= threshold)

C4_Witness ==
    /\ prune_pass # "none"
    /\ pass_zeroed # {}
    /\ \E i \in PrunedModule : IsWeight(i) /\ param_data[i] # 0

Positions == 1..Len(s_labels)
ActivePositions == {i \in Positions : s_labels[i] # ignore_index}

\* sum of f over the finite set S
RECURSIVE SumOver(_, _)
SumOver(S, f) ==
    IF S = {} THEN 0
    ELSE LET x == CHOOSE y \in S : TRUE IN f[x] + SumOver(S \ {x}, f)

\* C7: the returned full_loss equals (1 - alpha) * kd_loss + alpha * objective
\* of the same returned value, for every alpha in [0, 1] and every input.
C7_FullLossIsConvexCombination ==
    loss_state = "returned" =>
        /\ ~last_loss.full_loss.nan
        /\ last_loss.full_loss.v =
              (AlphaDen - alpha) * last_loss.kd_loss.v + alpha * last_loss.objective.v

C7_Witness ==
    /\ loss_state = "returned"
    /\ 0 < alpha /\ alpha < AlphaDen
    /\ last_loss.kd_loss.v > 0
    /\ last_loss.objective.v > last_loss.kd_loss.v

\* C8: when every label equals ignore_index, loss returns, its objective is
\* exactly 0 and its full_loss equals (1 - alpha) * kd_loss.
C8_AllIgnoredGivesZeroObjective ==
    (loss_state = "returned" /\ ActivePositions = {}) =>
        /\ last_loss.objective = Scalar(0)
        /\ ~last_loss.full_loss.nan
        /\ last_loss.full_loss.v = (AlphaDen - alpha) * last_loss.kd_loss.v

C8_Witness ==
    /\ loss_state = "returned" /\ ActivePositions = {}
    /\ Len(s_labels) >= 2
    /\ alpha > 0
    /\ last_loss.kd_loss.v > 0

\* C9: the objective is the task loss of exactly the positions whose label
\* differs from ignore_index, and kd_loss is the distillation loss of all the
\* positions of the teacher and student logits, masked or not.
C9_ObjectiveMaskedKdUnmasked ==
    loss_state = "returned" =>
        /\ last_loss.objective =
              IF ActivePositions = {} THEN Scalar(0)
              ELSE Scalar(SumOver(ActivePositions,
                                  [i \in ActivePositions |->
                                      CrossEntropyRow(student_logits[i], s_labels[i])])
                          \div Cardinality(ActivePositions))
        /\ last_loss.kd_loss =
              IF loss_distill = "mse"
              THEN Scalar((100 * SumOver(Positions,
                              [i \in Positions |->
                                  SumOver({1, 2},
                                      [c \in {1, 2} |->
                                          (teacher_logits[i][c] - student_logits[i][c])
                                        * (teacher_logits[i][c] - student_logits[i][c])])]))
                          \div (2 * Len(s_labels)))
              ELSE Scalar(SumOver(Positions,
                              [i \in Positions |->
                                  KLRow(teacher_logits[i], student_logits[i])])
                          \div Len(s_labels))

\* the labels [-100, 1, 0, -100]: teacher and student differ at the masked
\* positions only, and the student misses the label at position 2
C9_Witness ==
    /\ loss_state = "returned"
    /\ s_labels = <<ignore_index, 1, 0, ignore_index>>
    /\ \A i \in {1, 4} : teacher_logits[i] # student_logits[i]
    /\ \A i \in {2, 3} : teacher_logits[i] = student_logits[i]
    /\ last_loss.kd_loss.v > 0
    /\ last_loss.objective.v > 0

\* ================================================================
\* Claims about objective selection (SpecDistill)
\* ================================================================

UnknownKey ==
    \/ cfg_distillation_loss \notin {"absent", "kl", "mse"}
    \/ cfg_objective \notin {"absent", "ce", "lsl", "weighted"}

\* C10: an unknown loss identifier makes construction fail, before any step
\* runs and with no loss function selected; a constructed module holds the
\* function its key names, and the default ("kl", "ce") only when the key is absent.
C10_UnknownKeyFailsAtConstruction ==
    /\ (UnknownKey /\ module_state # "new") =>
          /\ module_state = "failed"
          /\ loss_distill = "unset" /\ objective = "unset"
    /\ steps_run > 0 => (module_state = "constructed" /\ ~UnknownKey)
    /\ (module_state = "constructed" /\ module_kind = "Seq2SeqDistiller") =>
          /\ loss_distill = "kl" <=> cfg_distillation_loss \in {"absent", "kl"}
          /\ loss_distill = "mse" <=> cfg_distillation_loss = "mse"
    /\ (module_state = "constructed" /\ module_kind = "BaseModule") =>
          /\ objective = "ce" <=> cfg_objective \in {"absent", "ce"}
          /\ objective # "ce" => objective = cfg_objective

C10_Witness ==
    /\ module_kind = "Seq2SeqDistiller"
    /\ cfg_distillation_loss = "cosine"
    /\ module_state = "failed"

\* C11: over a fit run, a pruning pass is made at the end of training epoch e
\* exactly when start_pruning_epoch # -1 and e >= start_pruning_epoch, and at
\* fit end exactly when start_pruning_epoch = -1; so in deferred mode (-1) the
\* run makes one pass in all, at fit end, with no gradient zeroing before it,
\* and in per-epoch mode nothing is pruned before the end of epoch
\* start_pruning_epoch.
C11_PassesFollowStartEpoch ==
    /\ [][/\ trainer_pc = "epoch_end" =>
               (prune_pass' = "epoch_end" <=>
                   (start_pruning_epoch # -1 /\ current_epoch >= start_pruning_epoch))
          /\ trainer_pc = "fit_end" =>
               (prune_pass' = "fit_end" <=> start_pruning_epoch = -1)
          /\ prune_passes' = prune_passes + (IF prune_pass' = "none" THEN 0 ELSE 1)]_vars
    /\ [](start_pruning_epoch = -1 =>
            /\ grad_zeroings = 0
            /\ prune_passes = (IF trainer_pc = "done" THEN 1 ELSE 0)
            /\ trainer_pc # "done" => pass_zeroed = {})
    /\ []((start_pruning_epoch # -1 /\ current_epoch <= start_pruning_epoch) =>
            prune_passes = 0)

C11_Witness ==
    /\ trainer_pc = "done"
    /\ start_pruning_epoch = -1
    /\ prune_passes = 1 /\ grad_zeroings = 0
    /\ pass_zeroed # {}

\* ================================================================
\* Claims about the epoch-end reports (SpecDistill)
\* ================================================================

\* C12: the validation and test buffers are phase-scoped: the logits an
\* on_validation_epoch_end or on_test_epoch_end concatenates and reports are
\* exactly those the validation_step / test_step calls of the phase that is
\* ending appended, with nothing left from the sanity pre-pass or from an
\* earlier validation or test epoch.
C12_ReportIsOfCurrentPhase ==
    last_report.hook # "none" => last_report.logits = last_report.phase_outputs

\* ================================================================
\* Claims about SparsityBasedPruning on a distiller (SpecSparsity)
\* ================================================================

StudentEntries == {i \in Entries : param_name[i][1] = "student"}

\* floor(sparsity_level * number of student entries)
StudentBottomCount == (sparsity_level * Cardinality(StudentEntries)) \div SparsityDen

\* the k-th smallest absolute value among the entries S of data, 1 <= k <= |S|
KthSmallestAbs(S, data, k) ==
    CHOOSE v \in {Abs(data[i]) : i \in S} :
        /\ Cardinality({i \in S : Abs(data[i]) < v}) < k
        /\ k <= Cardinality({i \in S : Abs(data[i]) <= v})

\* the student's entries below the student's own threshold set to zero,
\* every other entry kept
PrunedByStudentThreshold(data) ==
    LET thresh == KthSmallestAbs(StudentEntries, data, StudentBottomCount)
    IN [i \in DOMAIN data |->
           IF i \in StudentEntries /\ Abs(data[i]) < thresh THEN 0 ELSE data[i]]

\* C13: on a module with a "student" submodule, on_fit_end takes both its
\* threshold and the entries it zeroes from the student's parameters only:
\* the threshold is the k-th smallest absolute value among the student's
\* entries, k = floor(sparsity_level * number of student entries), and no
\* parameter outside the student influences the threshold or is modified.
C13_StudentOnlyThresholdAndZeroing ==
    (/\ HasStudent
     /\ fit_ends = 1 /\ fit_end_state = "returned"
     /\ sparsity_level > 0
     /\ StudentBottomCount >= 1) =>
        param_data = PrunedByStudentThreshold(param_data0)

====
